---- MODULE Spec2Model ----
(***************************************************************************)
(* python3-config-rs: decoding the build_time_vars mapping of a            *)
(* _sysconfigdata.py document (src/lib.rs).                                *)
(*                                                                         *)
(* The document text is identified with what rustpython_parser returns on  *)
(* it: either a ParseError or a Program (a sequence of statements).  The   *)
(* decoder (SysConfigData::parse) and the classifier (get_string,          *)
(* get_number, get_bool) are pure functions and are modelled as operators; *)
(* the public entry points PythonConfig::parse and FromStr::from_str are   *)
(* the actions.                                                            *)
(***************************************************************************)
EXTENDS Integers, Sequences, FiniteSets, TLC

VARIABLES
  src,      \* the document handed to the entry point, as the parser reads it
  pc,       \* "ready" before the call, "done" after it
  result    \* the Result<PythonConfig, Error> the call returned

vars == <<src, pc, result>>

----------------------------------------------------------------------------
(* Bounds of the input documents.                                          *)

MaxEntries == 3        \* entries of the mapping of a one-assignment document
MaxFlagEntries == 2    \* flag entries after 'VERSION' in a flag document
MaxFrags == 3          \* fragments of an implicitly concatenated string
MaxStmts == 2          \* statements of a many-statement document
MaxStmtEntries == 1    \* entries of each mapping of a many-statement document

----------------------------------------------------------------------------
(* Option<T> and the syntax tree of rustpython_parser::ast.                *)

None == [some |-> FALSE]
Some(v) == [some |-> TRUE, val |-> v]

\* StringGroup
Constant(s) == [type |-> "Constant", text |-> s]
FormattedValue == [type |-> "FormattedValue"]
Joined(vs) == [type |-> "Joined", values |-> vs]

\* ExpressionType
String(sg) == [node |-> "String", sg |-> sg]
Str(s) == String(Constant(s))
\* a non-negative BigInt in two base-2^16 digits: hi * 2^16 + lo
BigInt(hi, lo) == [hi |-> hi, lo |-> lo]
Integer(b) == [node |-> "Number", num |-> [type |-> "Integer", int |-> b]]
Small(n) == Integer(BigInt(0, n))
Float == [node |-> "Number", num |-> [type |-> "Float"]]
Identifier(name) == [node |-> "Identifier", name |-> name]
Dict(elements) == [node |-> "Dict", elements |-> elements]
Unop == [node |-> "Unop"]
Attribute == [node |-> "Attribute"]

\* one element of a Dict: (Option<Expression>, Expression)
Element(key, value) == [key |-> key, value |-> value]

\* StatementType
Assign(targets, value) == [type |-> "Assign", targets |-> targets, value |-> value]
ExpressionStmt == [type |-> "Expression"]

\* Result<Program, ParseError> of parser::parse_program
ParseOk(statements) == [ok |-> TRUE, statements |-> statements]
ParseErr(e) == [ok |-> FALSE, err |-> e]

----------------------------------------------------------------------------
(* enum Error and Result<PythonConfig, Error>.                             *)

SyntaxError(e) == [kind |-> "SyntaxError", err |-> e]
MissingBuildTimeVars == [kind |-> "MissingBuildTimeVars"]
KeyError(key) == [kind |-> "KeyError", key |-> key]
Ok(v) == [kind |-> "Ok", config |-> v]

From_ParseError_const(e) == SyntaxError("E1")
From_ParseError(e) == SyntaxError(e)

\* BuildTimeVars::default()
BuildTimeVars_default ==
  [abiflags |-> "", count_allocs |-> FALSE, cflags |-> "", config_dir |-> "",
   ext_suffix |-> "", exec_prefix |-> "", include_dir |-> "", lib_dir |-> "",
   libs |-> "", ldflags |-> "", ld_version |-> "", prefix |-> "",
   py_debug |-> FALSE, py_ref_debug |-> FALSE, py_trace_refs |-> FALSE,
   py_enable_shared |-> FALSE, soabi |-> "", shlib_suffix |-> "",
   size_of_void_p |-> 0, with_thread |-> FALSE, version |-> ""]

----------------------------------------------------------------------------
(* The expression classifier.                                              *)

\* the loop of get_string over the fragments of a Joined group, from index i
RECURSIVE push_fragments_sep(_, _, _)
push_fragments_sep(s, values, i) ==
  IF i > Len(values) THEN s
  ELSE IF values[i].type = "Constant"
       THEN push_fragments_sep(IF i > 1 THEN s \o " " \o values[i].text
                               ELSE s \o values[i].text, values, i + 1)
       ELSE push_fragments_sep(s, values, i + 1)

RECURSIVE push_fragments(_, _, _)
push_fragments(s, values, i) ==
  IF i > Len(values) THEN s
  ELSE IF values[i].type = "Constant"
       THEN push_fragments(s \o values[i].text, values, i + 1)
       ELSE push_fragments(s, values, i + 1)

get_string(expr) ==
  IF expr.node = "String"
  THEN CASE expr.sg.type = "Constant" -> Some(expr.sg.text)
         [] expr.sg.type = "Joined" -> Some(push_fragments("", expr.sg.values, 1))
         [] OTHER -> None
  ELSE None

\* BigInt::to_i32: the value when it is at most i32::MAX = 2^31 - 1.  An integer
\* literal of the grammar is never negative (a minus sign is a unary operator).
to_i32(b) == IF b.hi < 2^15 THEN Some(b.hi * 2^16 + b.lo) ELSE None

get_number(expr) ==
  IF expr.node = "Number"
  THEN IF expr.num.type = "Integer" THEN to_i32(expr.num.int) ELSE None
  ELSE None

get_bool_truthy(expr) ==
  IF get_number(expr).some THEN get_number(expr).val >= 1 ELSE FALSE

get_bool(expr) ==
  IF get_number(expr).some THEN get_number(expr).val = 1 ELSE FALSE

\* Option<String>::unwrap_or_default
unwrap_or_default(o) == IF o.some THEN o.val ELSE ""

\* i32 as u32: two's complement, 2^32 + n for a negative n
as_u32(n) == IF n >= 0 THEN n ELSE (2^31 - 1) + (2^31 - 1) + 2 + n

----------------------------------------------------------------------------
(* The configuration decoder.  A step of a loop returns Continue(vars) or  *)
(* Return(error), the early return of the `?` operator.                    *)

Continue(v) == [ret |-> FALSE, vars |-> v]
Return(e) == [ret |-> TRUE, err |-> e]

\* the arms `vars.f = get_string(&value).unwrap_or_default()`
StringArm_keep(v, f, value) ==
  IF get_string(value).some
  THEN Continue([v EXCEPT ![f] = get_string(value).val])
  ELSE Continue(v)

StringArm(v, f, value) ==
  Continue([v EXCEPT ![f] = unwrap_or_default(get_string(value))])

\* the arms `vars.f = get_bool(&value)`
BoolArm(v, f, value) == Continue([v EXCEPT ![f] = get_bool(value)])

\* the arm "SIZEOF_VOID_P"
SizeofVoidPArm_default(v, value) ==
  IF get_number(value).some
  THEN Continue([v EXCEPT !.size_of_void_p = as_u32(get_number(value).val)])
  ELSE Continue(v)

SizeofVoidPArm(v, value) ==
  IF get_number(value).some
  THEN Continue([v EXCEPT !.size_of_void_p = as_u32(get_number(value).val)])
  ELSE Return(KeyError("SIZEOF_VOID_P"))

\* the arm "VERSION"
VersionArm(v, value) ==
  IF get_string(value).some
  THEN Continue([v EXCEPT !.version = get_string(value).val])
  ELSE Return(KeyError("VERSION"))

\* match key.as_str() { ... }
MatchKey(v, key, value) ==
  CASE key = "ABIFLAGS" -> StringArm(v, "abiflags", value)
    [] key = "COUNT_ALLOCS" -> BoolArm(v, "count_allocs", value)
    [] key = "CFLAGS" -> StringArm(v, "cflags", value)
    [] key = "LIBPL" -> StringArm(v, "config_dir", value)
    [] key = "EXT_SUFFIX" -> StringArm(v, "ext_suffix", value)
    [] key = "exec_prefix" -> StringArm(v, "exec_prefix", value)
    [] key = "INCLUDEDIR" -> StringArm(v, "include_dir", value)
    [] key = "LIBDIR" -> StringArm(v, "lib_dir", value)
    [] key = "LIBS" -> StringArm(v, "libs", value)
    [] key = "LDFLAGS" -> StringArm(v, "ldflags", value)
    [] key = "LDVERSION" -> StringArm(v, "ld_version", value)
    [] key = "prefix" -> StringArm(v, "prefix", value)
    [] key = "Py_DEBUG" -> BoolArm(v, "py_debug", value)
    [] key = "Py_ENABLE_SHARED" -> BoolArm(v, "py_enable_shared", value)
    [] key = "Py_REF_DEBUG" -> BoolArm(v, "py_ref_debug", value)
    [] key = "Py_TRACE_REFS" -> BoolArm(v, "py_trace_refs", value)
    [] key = "SOABI" -> StringArm(v, "soabi", value)
    [] key = "SHLIB_SUFFIX" -> StringArm(v, "shlib_suffix", value)
    [] key = "SIZEOF_VOID_P" -> SizeofVoidPArm(v, value)
    [] key = "VERSION" -> VersionArm(v, value)
    [] OTHER -> Continue(v)

\* key.and_then(|key| get_string(&key))
KeyString(element) ==
  IF element.key.some THEN get_string(element.key.val) ELSE None

\* the body of `for (key, value) in elements`
ScanElement_ci(v, element) ==
  IF KeyString(element).some
  THEN MatchKey(v, IF KeyString(element).val = "version" THEN "VERSION"
                   ELSE KeyString(element).val, element.value)
  ELSE Continue(v)

ScanElement(v, element) ==
  IF KeyString(element).some
  THEN MatchKey(v, KeyString(element).val, element.value)
  ELSE Continue(v)

\* `for (key, value) in elements`, from index i
RECURSIVE ScanElements(_, _, _)
ScanElements(v, elements, i) ==
  IF i > Len(elements) THEN Continue(v)
  ELSE LET r == ScanElement(v, elements[i])
       IN  IF r.ret THEN r ELSE ScanElements(r.vars, elements, i + 1)

\* the body of `for stmt in program.statements`.  The parser builds no Assign
\* without a target, so the early return on an empty target list is never taken.
ScanStatement_anyname(v, stmt) ==
  IF stmt.type = "Assign"
  THEN IF Len(stmt.targets) = 0 THEN Return(MissingBuildTimeVars)
       ELSE IF stmt.value.node = "Dict"
            THEN ScanElements(v, stmt.value.elements, 1)
            ELSE Continue(v)
  ELSE Continue(v)

ScanStatement(v, stmt) ==
  IF stmt.type = "Assign"
  THEN IF Len(stmt.targets) = 0 THEN Return(MissingBuildTimeVars)
       ELSE IF ~(stmt.targets[1].node = "Identifier"
                 /\ stmt.targets[1].name = "build_time_vars")
            THEN Continue(v)
            ELSE IF stmt.value.node = "Dict"
                 THEN ScanElements(v, stmt.value.elements, 1)
                 ELSE Continue(v)
  ELSE Continue(v)

\* a statement on which the scan reaches the loop over the elements
IsDictAssign(stmt) ==
  /\ stmt.type = "Assign"
  /\ Len(stmt.targets) > 0
  /\ stmt.targets[1].node = "Identifier"
  /\ stmt.targets[1].name = "build_time_vars"
  /\ stmt.value.node = "Dict"

\* `for stmt in program.statements`, from index i
RECURSIVE ScanStatements_first(_, _, _)
ScanStatements_first(v, statements, i) ==
  IF i > Len(statements) THEN Continue(v)
  ELSE LET r == ScanStatement(v, statements[i])
       IN  IF r.ret \/ IsDictAssign(statements[i]) THEN r
           ELSE ScanStatements_first(r.vars, statements, i + 1)

RECURSIVE ScanStatements(_, _, _)
ScanStatements(v, statements, i) ==
  IF i > Len(statements) THEN Continue(v)
  ELSE LET r == ScanStatement(v, statements[i])
       IN  IF r.ret THEN r ELSE ScanStatements(r.vars, statements, i + 1)

\* the check of vars.version after the scan
Finish_nocheck(v) == Ok(v)

Finish(v) == IF v.version = "" THEN MissingBuildTimeVars ELSE Ok(v)

\* parser::parse_program(src)
parse_program(s) == s

\* SysConfigData::parse; PythonConfig::parse wraps its result unchanged
SysConfigData_parse(s) ==
  LET program == parse_program(s)
  IN  IF ~program.ok THEN From_ParseError(program.err)
      ELSE LET r == ScanStatements(BuildTimeVars_default, program.statements, 1)
           IN  IF r.ret THEN r.err ELSE Finish(r.vars)

PythonConfig_parse(s) == SysConfigData_parse(s)

from_str(s) == PythonConfig_parse(s)

----------------------------------------------------------------------------
(* The documents.                                                          *)

TargetName == Identifier("build_time_vars")
BuildTimeVarsStmt(elements) == Assign(<<TargetName>>, Dict(elements))
Keyed(k, value) == Element(Some(Str(k)), value)
Version38 == Keyed("VERSION", Str("3.8"))

ParseErrors == {"E1", "E2"}

\* entries of the mapping of a one-assignment document
Entries ==
  { Version38,
    Keyed("VERSION", Str("")),
    Keyed("VERSION", Unop),
    Element(Some(String(Joined(<<Constant("VER"), Constant("SION")>>))), Small(3)),
    Keyed("SIZEOF_VOID_P", Small(8)),
    Keyed("SIZEOF_VOID_P", Str("")),
    Keyed("SIZEOF_VOID_P", Integer(BigInt(2^15, 0))),
    Keyed("CFLAGS", Str("a")),
    Keyed("CFLAGS", Small(1)),
    Keyed("Py_DEBUG", Small(1)),
    Keyed("Py_DEBUG", Small(0)),
    Keyed("version", Str("3.8")),
    Keyed("WITH_THREAD", Small(1)),
    Element(Some(Small(1)), Str("3.8")),
    Element(Some(String(FormattedValue)), Str("3.8")),
    Element(None, Identifier("other")) }

OneAssignDoc(m) == ParseOk(<<BuildTimeVarsStmt(m)>>)

\* flag documents: 'VERSION': '3.8' followed by flag entries
FlagKeys ==
  {"COUNT_ALLOCS", "Py_DEBUG", "Py_ENABLE_SHARED", "Py_REF_DEBUG", "Py_TRACE_REFS"}
FlagValues == {Small(0), Small(1), Small(2), Float, Str("1"), Unop}
FlagEntries == {Keyed(k, x) : k \in FlagKeys, x \in FlagValues}

FlagDoc(m) == ParseOk(<<BuildTimeVarsStmt(<<Version38>> \o m)>>)

\* string documents: 'VERSION': '3.8' followed by one string-keyed entry
StringKeys ==
  {"ABIFLAGS", "CFLAGS", "LIBPL", "EXT_SUFFIX", "exec_prefix", "INCLUDEDIR",
   "LIBDIR", "LIBS", "LDFLAGS", "LDVERSION", "prefix", "SOABI", "SHLIB_SUFFIX"}
Fragments ==
  {Constant("a"), Constant("b"), Constant(""), FormattedValue,
   Joined(<<Constant("c"), FormattedValue>>)}
StringExprs == {Str(""), Str("a"), String(FormattedValue)}
JoinedExpr(fs) == String(Joined(fs))

StringDoc(k, x) == ParseOk(<<BuildTimeVarsStmt(<<Version38, Keyed(k, x)>>)>>)

\* many-statement documents
StmtEntries ==
  { Version38,
    Keyed("VERSION", Str("3.9")),
    Keyed("VERSION", Unop),
    Keyed("SIZEOF_VOID_P", Small(8)),
    Keyed("SIZEOF_VOID_P", Str("")) }
OtherStmts ==
  { ExpressionStmt,
    Assign(<<Identifier("i")>>, Small(0)),
    Assign(<<Identifier("x")>>, Dict(<<Version38>>)),
    Assign(<<Identifier("x"), TargetName>>, Dict(<<Version38>>)),
    Assign(<<Attribute>>, Dict(<<Version38>>)),
    Assign(<<TargetName>>, Str("3.8")) }
Stmts ==
  OtherStmts \cup
    UNION {{BuildTimeVarsStmt(m) : m \in [1..n -> StmtEntries]} : n \in 0..MaxStmtEntries}

ManyStmtDoc(ss) == ParseOk(ss)

----------------------------------------------------------------------------
(* The entry points.                                                       *)

NoResult == [kind |-> "None"]

InitSrc ==
  \/ \E n \in 0..MaxEntries : \E m \in [1..n -> Entries] : src = OneAssignDoc(m)
  \/ \E n \in 0..MaxFlagEntries : \E m \in [1..n -> FlagEntries] : src = FlagDoc(m)
  \/ \E k \in StringKeys \cup {"VERSION"} :
       \/ \E x \in StringExprs : src = StringDoc(k, x)
       \/ \E n \in 2..MaxFrags : \E fs \in [1..n -> Fragments] :
            src = StringDoc(k, JoinedExpr(fs))
  \/ \E n \in 0..MaxStmts : \E ss \in [1..n -> Stmts] : src = ManyStmtDoc(ss)
  \/ \E e \in ParseErrors : src = ParseErr(e)

Init ==
  /\ InitSrc
  /\ pc = "ready"
  /\ result = NoResult

\* PythonConfig::parse(src)
Parse ==
  /\ pc = "ready"
  /\ result' = PythonConfig_parse(src)
  /\ pc' = "done"
  /\ UNCHANGED src

\* <PythonConfig as FromStr>::from_str(src)
FromStr ==
  /\ pc = "ready"
  /\ result' = from_str(src)
  /\ pc' = "done"
  /\ UNCHANGED src

Next == Parse \/ FromStr

Spec == Init /\ [][Next]_vars

TypeOK ==
  /\ pc \in {"ready", "done"}
  /\ result.kind \in {"None", "Ok", "SyntaxError", "MissingBuildTimeVars", "KeyError"}
  /\ (pc = "ready") = (result = NoResult)

----------------------------------------------------------------------------
(* What the specification says of a document, stated on the syntax tree    *)
(* without the decoder's operators.                                        *)

Done == pc = "done"

\* a top-level assignment of a mapping literal to build_time_vars
IsTarget(stmt) ==
  /\ stmt.type = "Assign"
  /\ stmt.targets[1] = TargetName
  /\ stmt.value.node = "Dict"

TargetIndexes(d) == {i \in 1..Len(d.statements) : IsTarget(d.statements[i])}

\* the entries of all target mappings of a statement sequence, in source order
RECURSIVE AllElements(_)
AllElements(statements) ==
  IF statements = <<>> THEN <<>>
  ELSE (IF IsTarget(Head(statements)) THEN Head(statements).value.elements
        ELSE <<>>) \o AllElements(Tail(statements))

ElementsOf(d) == AllElements(d.statements)

RECURSIVE Concat(_)
Concat(texts) == IF texts = <<>> THEN "" ELSE Head(texts) \o Concat(Tail(texts))

IsConstantFragment(f) == f.type = "Constant"
FragmentText(fs) == Concat([i \in 1..Len(fs) |-> fs[i].text])

\* a string literal, or adjacent string-literal fragments
SpecIsString(x) == x.node = "String" /\ x.sg.type \in {"Constant", "Joined"}
SpecText(x) ==
  IF x.sg.type = "Constant" THEN x.sg.text
  ELSE FragmentText(SelectSeq(x.sg.values, IsConstantFragment))
SpecString(x) == IF SpecIsString(x) THEN Some(SpecText(x)) ELSE None

\* a bare integer literal that fits the 32-bit signed width
SpecIsInteger(x) ==
  x.node = "Number" /\ x.num.type = "Integer" /\ x.num.int.hi < 32768
IsIntegerOne(x) ==
  x.node = "Number" /\ x.num.type = "Integer" /\ x.num.int = BigInt(0, 1)

SpecKey(e) == IF e.key.some THEN SpecString(e.key.val) ELSE None
HasKey(e, k) == SpecKey(e) = Some(k)

RequiredKeys == {"VERSION", "SIZEOF_VOID_P"}
RecognizedKeys == StringKeys \cup FlagKeys \cup RequiredKeys

\* the field of the record an optional key is decoded into
FieldOf ==
  [k \in StringKeys \cup FlagKeys |->
     CASE k = "ABIFLAGS" -> "abiflags"
       [] k = "CFLAGS" -> "cflags"
       [] k = "LIBPL" -> "config_dir"
       [] k = "EXT_SUFFIX" -> "ext_suffix"
       [] k = "exec_prefix" -> "exec_prefix"
       [] k = "INCLUDEDIR" -> "include_dir"
       [] k = "LIBDIR" -> "lib_dir"
       [] k = "LIBS" -> "libs"
       [] k = "LDFLAGS" -> "ldflags"
       [] k = "LDVERSION" -> "ld_version"
       [] k = "prefix" -> "prefix"
       [] k = "SOABI" -> "soabi"
       [] k = "SHLIB_SUFFIX" -> "shlib_suffix"
       [] k = "COUNT_ALLOCS" -> "count_allocs"
       [] k = "Py_DEBUG" -> "py_debug"
       [] k = "Py_ENABLE_SHARED" -> "py_enable_shared"
       [] k = "Py_REF_DEBUG" -> "py_ref_debug"
       [] k = "Py_TRACE_REFS" -> "py_trace_refs"]

Unrecognized(e) == ~(\E k \in RecognizedKeys : HasKey(e, k))

\* a required key whose value does not classify
Offending(e) ==
  \/ HasKey(e, "VERSION") /\ ~SpecIsString(e.value)
  \/ HasKey(e, "SIZEOF_VOID_P") /\ ~SpecIsInteger(e.value)

Max(S) == CHOOSE m \in S : \A n \in S : n <= m
Min(S) == CHOOSE m \in S : \A n \in S : m <= n

KeyIndexes(es, k) == {i \in 1..Len(es) : HasKey(es[i], k)}
OffendingIndexes(es) == {i \in 1..Len(es) : Offending(es[i])}

\* the text of the last 'VERSION' entry, "" when there is none
FinalVersion(es) ==
  IF KeyIndexes(es, "VERSION") = {} THEN ""
  ELSE SpecText(es[Max(KeyIndexes(es, "VERSION"))].value)

\* the document without the target assignments after the first
RECURSIVE DropTargets(_)
DropTargets(statements) ==
  IF statements = <<>> THEN <<>>
  ELSE (IF IsTarget(Head(statements)) THEN <<>> ELSE <<Head(statements)>>)
         \o DropTargets(Tail(statements))

RECURSIVE KeepFirstTarget(_)
KeepFirstTarget(statements) ==
  IF statements = <<>> THEN <<>>
  ELSE IF IsTarget(Head(statements))
       THEN <<Head(statements)>> \o DropTargets(Tail(statements))
       ELSE <<Head(statements)>> \o KeepFirstTarget(Tail(statements))

\* the document of one assignment holding the entries of all target mappings
Merged(d) == ParseOk(<<BuildTimeVarsStmt(ElementsOf(d))>>)

\* the document without the unrecognized entries of its target mappings
IsRecognized(e) == ~Unrecognized(e)
StripStmt(stmt) ==
  IF IsTarget(stmt)
  THEN Assign(stmt.targets, Dict(SelectSeq(stmt.value.elements, IsRecognized)))
  ELSE stmt
Stripped(d) == ParseOk([i \in 1..Len(d.statements) |-> StripStmt(d.statements[i])])

----------------------------------------------------------------------------
(* The claims.                                                             *)

\* C1: a document whose target mapping holds a valid non-empty VERSION string
\* and no SIZEOF_VOID_P entry at all is rejected with KeyError("SIZEOF_VOID_P").
C1_MissingPointerWidthIsKeyError ==
  (/\ Done
   /\ src.ok
   /\ TargetIndexes(src) # {}
   /\ KeyIndexes(ElementsOf(src), "SIZEOF_VOID_P") = {}
   /\ KeyIndexes(ElementsOf(src), "VERSION") # {}
   /\ \A i \in KeyIndexes(ElementsOf(src), "VERSION") :
        SpecIsString(ElementsOf(src)[i].value)
   /\ FinalVersion(ElementsOf(src)) # "")
  => result = KeyError("SIZEOF_VOID_P")

\* C2 as claimed: the outcome of a document equals the outcome of the document
\* with every target assignment after the first removed.
C2_OnlyFirstAssignment ==
  (Done /\ src.ok) =>
    result = PythonConfig_parse(ParseOk(KeepFirstTarget(src.statements)))

\* C2 as amended: every target assignment is decoded, in source order, into the
\* same record: the outcome of a document equals the outcome of the document
\* of one assignment whose mapping lists the entries of all the target mappings
\* in source order.
C2_AllAssignmentsMerged ==
  (Done /\ src.ok) => result = PythonConfig_parse(Merged(src))

\* a later target assignment changed the outcome of the first
C2_Witness ==
  /\ Done
  /\ src.ok
  /\ Cardinality(TargetIndexes(src)) >= 2
  /\ result.kind = "Ok"
  /\ result # PythonConfig_parse(ParseOk(KeepFirstTarget(src.statements)))

\* C3: when a target mapping holds an entry of a required key whose value does
\* not classify, the outcome is KeyError naming the key of the first such entry
\* in source order, whatever the other entries and statements are.
C3_UnclassifiableRequiredKey ==
  (Done /\ src.ok /\ OffendingIndexes(ElementsOf(src)) # {}) =>
    \E k \in RequiredKeys :
      /\ HasKey(ElementsOf(src)[Min(OffendingIndexes(ElementsOf(src)))], k)
      /\ result = KeyError(k)

\* SIZEOF_VOID_P offends first, VERSION offends later, a valid VERSION is there
C3_Witness ==
  /\ Done
  /\ src.ok
  /\ result = KeyError("SIZEOF_VOID_P")
  /\ \E i, j \in OffendingIndexes(ElementsOf(src)) :
       i > j /\ HasKey(ElementsOf(src)[i], "VERSION")
  /\ \E i \in KeyIndexes(ElementsOf(src), "VERSION") :
       ~Offending(ElementsOf(src)[i])

\* C4: a document that parses and holds no top-level assignment of a mapping
\* literal to build_time_vars as first target is rejected with
\* MissingBuildTimeVars.
C4_NoTargetAssignment ==
  (Done /\ src.ok /\ TargetIndexes(src) = {}) => result = MissingBuildTimeVars

\* build_time_vars bound to a non-mapping, next to a mapping bound to another name
C4_Witness ==
  /\ Done
  /\ src.ok
  /\ TargetIndexes(src) = {}
  /\ result = MissingBuildTimeVars
  /\ \E i \in 1..Len(src.statements) :
       /\ src.statements[i].type = "Assign"
       /\ src.statements[i].targets[1] = TargetName
  /\ \E i \in 1..Len(src.statements) :
       /\ src.statements[i].type = "Assign"
       /\ src.statements[i].targets[1] # TargetName
       /\ src.statements[i].value.node = "Dict"

\* C5: the outcome is SyntaxError exactly when the parser rejects the text, and
\* it then carries the parser's error unchanged.
C5_SyntaxErrorPassedThrough ==
  Done => /\ (result.kind = "SyntaxError") = ~src.ok
          /\ ~src.ok => result = SyntaxError(src.err)

C5_Witness ==
  Done /\ ~src.ok /\ src.err = "E2" /\ result.kind = "SyntaxError"

\* C6: a successful decode has a non-empty version; when the scan ends with an
\* empty version (no VERSION entry, or the last one is the empty string) the
\* outcome is MissingBuildTimeVars.
C6_VersionNeverEmpty ==
  Done =>
    /\ result.kind = "Ok" => result.config.version # ""
    /\ (/\ src.ok
        /\ OffendingIndexes(ElementsOf(src)) = {}
        /\ FinalVersion(ElementsOf(src)) = "")
       => result = MissingBuildTimeVars

\* a non-empty VERSION followed by an empty one
C6_Witness ==
  /\ Done
  /\ src.ok
  /\ result = MissingBuildTimeVars
  /\ \E i, j \in KeyIndexes(ElementsOf(src), "VERSION") :
       /\ i < j
       /\ SpecString(ElementsOf(src)[i].value) = Some("3.8")
       /\ SpecString(ElementsOf(src)[j].value) = Some("")

\* C7: the outcome of a document equals the outcome of the document without
\* the entries of its target mappings that have no key, a key that is no
\* string literal, or a key that is none of the recognized names.
C7_UnrecognizedEntriesIgnored ==
  (Done /\ src.ok) => result = PythonConfig_parse(Stripped(src))

\* a successful decode of a mapping with a 'version' entry and a keyless entry
C7_Witness ==
  /\ Done
  /\ src.ok
  /\ result.kind = "Ok"
  /\ \E i \in 1..Len(ElementsOf(src)) : HasKey(ElementsOf(src)[i], "version")
  /\ \E i \in 1..Len(ElementsOf(src)) : ~ElementsOf(src)[i].key.some

\* C8: on a successful decode the field of a flag key is true exactly when the
\* key's value (of its last entry) is the bare integer literal 1, and false
\* when the key is absent or has any other value; and get_bool(x) equals
\* get_number(x) == Some(1) for every value x of the mapping.
C8_FlagIsIntegerOne ==
  (Done /\ src.ok) =>
    /\ result.kind = "Ok" =>
         \A k \in FlagKeys :
           result.config[FieldOf[k]] =
             (/\ KeyIndexes(ElementsOf(src), k) # {}
              /\ IsIntegerOne(ElementsOf(src)[Max(KeyIndexes(ElementsOf(src), k))].value))
    /\ \A i \in 1..Len(ElementsOf(src)) :
         get_bool(ElementsOf(src)[i].value)
           = (get_number(ElementsOf(src)[i].value) = Some(1))

\* one flag set by 1, another left false by the integer 2
C8_Witness ==
  /\ Done
  /\ result.kind = "Ok"
  /\ result.config.py_debug
  /\ ~result.config.py_trace_refs
  /\ \E i \in KeyIndexes(ElementsOf(src), "Py_TRACE_REFS") :
       ElementsOf(src)[i].value = Small(2)

\* C9: get_string returns the text of a single constant, the concatenation in
\* source order and without separator of the constant fragments of adjacent
\* fragments (the others skipped), and absent for any other expression; a
\* string field decoded from such a value holds that text.
C9_StringConcatenation ==
  (Done /\ src.ok) =>
    /\ \A i \in 1..Len(ElementsOf(src)) :
         /\ get_string(ElementsOf(src)[i].value) = SpecString(ElementsOf(src)[i].value)
         /\ ElementsOf(src)[i].key.some =>
              get_string(ElementsOf(src)[i].key.val) = SpecString(ElementsOf(src)[i].key.val)
    /\ result.kind = "Ok" =>
         \A k \in StringKeys :
           \A i \in KeyIndexes(ElementsOf(src), k) :
             (i = Max(KeyIndexes(ElementsOf(src), k))
                /\ SpecIsString(ElementsOf(src)[i].value))
             => result.config[FieldOf[k]] = SpecText(ElementsOf(src)[i].value)

\* three fragments, one of them no constant, decoded to "ab"
C9_Witness ==
  /\ Done
  /\ result.kind = "Ok"
  /\ result.config.cflags = "ab"
  /\ \E i \in KeyIndexes(ElementsOf(src), "CFLAGS") :
       /\ ElementsOf(src)[i].value.sg.type = "Joined"
       /\ Len(ElementsOf(src)[i].value.sg.values) = 3
       /\ \E j \in 1..3 : ElementsOf(src)[i].value.sg.values[j] = FormattedValue

\* the value of the last entry of key k that classifies, as a field value
LastClassified(es, k) ==
  LET S == {i \in KeyIndexes(es, k) :
              IF k \in FlagKeys THEN SpecIsInteger(es[i].value)
              ELSE SpecIsString(es[i].value)}
  IN  IF S = {} THEN (IF k \in FlagKeys THEN FALSE ELSE "")
      ELSE IF k \in FlagKeys THEN IsIntegerOne(es[Max(S)].value)
           ELSE SpecText(es[Max(S)].value)

\* the value of the last entry of key k, the type default when it does not classify
LastOrDefault(es, k) ==
  LET S == KeyIndexes(es, k)
  IN  IF S = {} THEN (IF k \in FlagKeys THEN FALSE ELSE "")
      ELSE IF k \in FlagKeys THEN IsIntegerOne(es[Max(S)].value)
           ELSE IF SpecIsString(es[Max(S)].value) THEN SpecText(es[Max(S)].value)
                ELSE ""

\* C10 as claimed: an entry of an optional key whose value does not classify
\* leaves the field unchanged: after the decode the field holds the value of
\* the last entry of the key that classifies, the type default if there is none.
C10_UnclassifiableLeavesField ==
  (Done /\ result.kind = "Ok") =>
    \A k \in StringKeys \cup FlagKeys :
      result.config[FieldOf[k]] = LastClassified(ElementsOf(src), k)

\* C10 as amended: the record starts at the type defaults, and every entry of
\* an optional key overwrites the field, with the classified value or, when
\* the value does not classify, with the type default; such an entry is never
\* fatal.  After the decode the field holds what the last entry of the key
\* gave it, so a classifiable value followed by an unclassifiable one leaves
\* the type default.
C10_UnclassifiableResetsField ==
  (Done /\ src.ok) =>
    /\ (OffendingIndexes(ElementsOf(src)) = {} /\ FinalVersion(ElementsOf(src)) # "")
         => result.kind = "Ok"
    /\ result.kind = "Ok" =>
         /\ \A k \in StringKeys \cup FlagKeys :
              result.config[FieldOf[k]] = LastOrDefault(ElementsOf(src), k)
         /\ KeyIndexes(ElementsOf(src), "SIZEOF_VOID_P") = {}
              => result.config.size_of_void_p = 0
         /\ ~result.config.with_thread

\* CFLAGS given a string and then an integer: the decode succeeds, cflags is ""
C10_Witness ==
  /\ Done
  /\ result.kind = "Ok"
  /\ result.config.cflags = ""
  /\ \E i, j \in KeyIndexes(ElementsOf(src), "CFLAGS") :
       /\ i < j
       /\ SpecString(ElementsOf(src)[i].value) = Some("a")
       /\ ~SpecIsString(ElementsOf(src)[j].value)

====
